---- MODULE Spec2Model ----
(***************************************************************************)
(* A rainbow table over a 16-byte digest (src/src/lib.rs): the family of   *)
(* reduction functions, chain generation through a bounded channel to one  *)
(* writer thread, the on-disk format, and the lookup; and the command that *)
(* builds a table from a word list (create in src/src/main.rs).            *)
(*                                                                         *)
(* Bytes are naturals 0..255.  A digest ([u8; 16]) is a sequence of 16     *)
(* bytes; read as a u128 it is little-endian, so byte 1 of the sequence is *)
(* the least significant.  A plaintext ([u8; P]) is a sequence of P bytes. *)
(* md5::compute is an external one-way function: the model draws it as an  *)
(* arbitrary function from the plaintexts it can meet to a small set of    *)
(* digests.                                                                *)
(***************************************************************************)
EXTENDS Naturals, Sequences, FiniteSets

\* ------------------------------------------------------------------ bounds

\* Longest chain length (`length`) the model draws.
MaxLength == 2

\* Most seeds handed to Table::write.
MaxSeeds == 2

\* Largest `reduction` index handed to reduce on its own.
MaxStep == 2

\* Largest plaintext length P the table specifications draw.
MaxP == 1

\* Largest plaintext length P handed to reduce on its own: one past the 16
\* that reduce asserts.
MaxReduceP == 17

\* rayon worker threads running the par_iter closure.
NumWorkers == 2

\* Largest plaintext length of the writing and of the reading Table<P> when
\* the two differ.
MaxMismatchP == 2

\* Most seeds handed to Table::write where the channel is to fill up behind a
\* busy writer: one per worker, one per slot of the channel, one more.
MaxQueueSeeds == 4

\* Capacity of the channel between producers and the writer thread.  The
\* source says channel::bounded(100); the model scales it down so that a
\* full channel is reachable with MaxSeeds seeds.
Capacity == 1

\* --------------------------------------------------------- bytes and u128

Byte == 0..255

\* a & b on naturals below 2^n, bit by bit.
RECURSIVE BitAnd(_, _)
BitAnd(a, b) ==
    IF a = 0 \/ b = 0 THEN 0
    ELSE (a % 2) * (b % 2) + 2 * BitAnd(a \div 2, b \div 2)

RECURSIVE Pow2(_)
Pow2(n) == IF n = 0 THEN 1 ELSE 2 * Pow2(n - 1)

\* Carry out of byte i (1-based) when the natural n is added to the
\* little-endian bytes b; the carry into byte 1 is n itself.
RECURSIVE CarryInto(_, _, _)
CarryInto(b, n, i) ==
    IF i = 1 THEN n ELSE (b[i - 1] + CarryInto(b, n, i - 1)) \div 256

\* u128 + (n as u128): the 16 low bytes of the sum and whether it left u128.
AddU128(b, n) ==
    [bytes    |-> [i \in 1..16 |-> (b[i] + CarryInto(b, n, i)) % 256],
     overflow |-> CarryInto(b, n, 17) > 0]

\* 1u128 << k for k < 128, as little-endian bytes.
ShlOne(k) == [i \in 1..16 |-> IF i = (k \div 8) + 1 THEN Pow2(k % 8) ELSE 0]

\* Borrow into byte i when 1 is subtracted from the little-endian bytes b.
RECURSIVE BorrowInto(_, _)
BorrowInto(b, i) ==
    IF i = 1 THEN 1
    ELSE IF b[i - 1] < BorrowInto(b, i - 1) THEN 1 ELSE 0

\* u128 - 1 (the operand is never 0 here: it is a power of two).
SubOne(b) == [i \in 1..16 |-> (b[i] + 256 - BorrowInto(b, i)) % 256]

\* u128 & u128.
AndU128(a, b) == [i \in 1..16 |-> BitAnd(a[i], b[i])]

\* ---------------------------------------------------------------- reduce

\* static TABLE: [u8; 64]: a-z, A-Z, 0-9, '_', '.' as ASCII codes.
TABLE ==
    << 97,  98,  99, 100, 101, 102, 103, 104, 105, 106, 107, 108, 109,
      110, 111, 112, 113, 114, 115, 116, 117, 118, 119, 120, 121, 122,
       65,  66,  67,  68,  69,  70,  71,  72,  73,  74,  75,  76,  77,
       78,  79,  80,  81,  82,  83,  84,  85,  86,  87,  88,  89,  90,
       48,  49,  50,  51,  52,  53,  54,  55,  56,  57,  95,  46 >>

\* The mask (1 << (8 * P)) - 1 for P = n.  A shift by 128 overflows u128:
\* with overflow checks (a debug build) it panics, without them (a release
\* build) the shift amount wraps to 128 % 128 = 0.
Mask(n, chk) ==
    IF 8 * n >= 128 /\ chk
    THEN [panic |-> TRUE, val |-> <<>>]
    ELSE [panic |-> FALSE, val |-> SubOne(ShlOne((8 * n) % 128))]

\* Table::<P>::reduce(reduction, hash) for P = n.  chk says whether the build
\* checks integer overflow.  The result is a plaintext of n bytes, or a panic.
reduce(n, chk, reduction, hash) ==
    IF n > 16 THEN [panic |-> TRUE, pass |-> <<>>]
    ELSE LET sum == AddU128(hash, reduction)
         IN  IF sum.overflow /\ chk THEN [panic |-> TRUE, pass |-> <<>>]
             ELSE LET mask == Mask(n, chk)
                  IN  IF mask.panic THEN [panic |-> TRUE, pass |-> <<>>]
                      ELSE LET pass == AndU128(sum.bytes, mask.val)
                           IN  [panic |-> FALSE,
                                pass  |-> [i \in 1..n |->
                                             TABLE[BitAnd(pass[i], 63) + 1]]]

\* --------------------------------------------------------------- digests

\* The digests md5::compute returns in the model: the largest u128, and one
\* that has the same low six bits in its first byte, so that at step 0 both
\* reduce to the same one-byte plaintext.
D191 == [i \in 1..16 |-> IF i = 1 THEN 191 ELSE 0]

DMax == [i \in 1..16 |-> 255]

Digests == {D191, DMax}

\* The plaintexts of n bytes that reduce can produce from Digests.
Plaintexts(n) ==
    {reduce(n, FALSE, r, h).pass : r \in 0..(MaxLength - 1), h \in Digests}
    \cup {reduce(n, FALSE, 0, DMax).pass}

\* Sequences over S of length at most n.
SeqUpTo(S, n) == UNION {[1..k -> S] : k \in 0..n}

\* ----------------------------------------------------------------- state

VARIABLES
    P,              \* const P: usize, the plaintext length of Table<P>
    checks,         \* whether the build checks integer overflow (debug)
    md5,            \* md5::compute as a function from plaintexts to digests
    seeds,          \* write: the seeds argument
    length,         \* write: the length argument
    todo,           \* write: indices of seeds no worker has taken yet
    holding,        \* write: per worker, the chain it is about to send
    panicked,       \* write: a par_iter closure has panicked
    tx,             \* write: "alive" until the scope closure drops tx
    queue,          \* write: the chains in the bounded channel
    writerPc,       \* write: where the writer thread is
    chain,          \* write: the chain the writer thread received last
    counter,        \* write: the writer thread's counter
    sink,           \* write: the bytes written to `writer` so far
    sinkFailed,     \* write: a write to `writer` has returned an error
    writeResult,    \* write: "running", then "Ok" or "panic"
    table,          \* read: the result of Table::read on the bytes of sink
    target,         \* get: the target argument
    probed,         \* get: start positions whose closure returned None
    getResult,      \* get: "idle", "running", then "some", "none" or "panic"
    redArgs,        \* reduce on its own: its arguments
    redOut,         \* reduce on its own: its result
    readerP,        \* read, get: the P of the Table<P> that reads the stream
    source,         \* read: the bytes handed to Table::read
    words,          \* create: the whitespace-separated words of `seeds`
    chainCount,     \* create: the chain_count argument
    createPc        \* create: where create is, "none" when it is not called

vars == <<P, checks, md5, seeds, length, todo, holding, panicked, tx, queue,
          writerPc, chain, counter, sink, sinkFailed, writeResult, table,
          target, probed, getResult, redArgs, redOut, readerP, source,
          words, chainCount, createPc>>

writeVars == <<todo, holding, panicked, tx, queue, writerPc, chain, counter,
               sink, sinkFailed, writeResult>>

getVars == <<target, probed, getResult>>

redVars == <<redArgs, redOut>>

createVars == <<words, chainCount, createPc>>

\* What no step of write, read, get or reduce changes.
config == <<P, checks, md5, seeds, length, readerP, createVars>>

NoChain == [busy |-> FALSE, pass |-> <<>>, hash |-> <<>>]

NoTable == [state |-> "none", length |-> 0, chains |-> <<>>]

NoResult == [state |-> "idle", pass |-> <<>>]

NoReduce == [state |-> "idle", panic |-> FALSE, pass |-> <<>>]

Workers == 1..NumWorkers

\* ------------------------------------------------------- Table::write

\* [u8; 8] of write_u64::<LittleEndian>(n).
RECURSIVE Shr8(_, _)
Shr8(n, k) == IF k = 0 THEN n ELSE Shr8(n \div 256, k - 1)

U64LE(n) == [i \in 1..8 |-> Shr8(n, i - 1) % 256]

\* The producer's loop `for reduction in 0..length` from `reduction` on, with
\* `hash` the digest so far: the chain's final hash, or a panic of reduce.
RECURSIVE chainLoop(_, _)
chainLoop(reduction, hash) ==
    IF reduction >= length THEN [panic |-> FALSE, hash |-> hash]
    ELSE LET pass == reduce(P, checks, reduction, hash)
         IN  IF pass.panic THEN [panic |-> TRUE, hash |-> hash]
             ELSE chainLoop(reduction + 1, md5[pass.pass])

\* The body of the par_iter closure up to tx.send, for one seed.
computeChain(seed) == chainLoop(0, md5[seed])

\* The receiver is dropped when the writer thread's closure returns.
rxDropped == writerPc \in {"done", "failed"}

\* A worker takes seed i and computes its chain.
Compute(w, i) ==
    /\ writeResult = "running"
    /\ tx = "alive"
    /\ ~holding[w].busy
    /\ i \in todo
    /\ todo' = todo \ {i}
    /\ LET c == computeChain(seeds[i])
       IN  IF c.panic
           THEN /\ panicked' = TRUE
                /\ holding' = holding
           ELSE /\ panicked' = panicked
                /\ holding' = [holding EXCEPT ![w] =
                       [busy |-> TRUE, pass |-> seeds[i], hash |-> c.hash]]
    /\ UNCHANGED <<tx, queue, writerPc, chain, counter, sink, sinkFailed,
                   writeResult, config, source, table, getVars, redVars>>

\* Send as it would be with try_send: a chain that meets a full channel is
\* dropped instead of waiting for room.
SendLossy(w) ==
    /\ holding[w].busy
    /\ IF rxDropped
       THEN /\ panicked' = TRUE
            /\ queue' = queue
       ELSE /\ panicked' = panicked
            /\ queue' = IF Len(queue) < Capacity
                        THEN Append(queue, [pass |-> holding[w].pass,
                                            hash |-> holding[w].hash])
                        ELSE queue
    /\ holding' = [holding EXCEPT ![w] = NoChain]
    /\ UNCHANGED <<todo, tx, writerPc, chain, counter, sink, sinkFailed,
                   writeResult, config, source, table, getVars, redVars>>

\* Send as it would be if a sender did not learn that the receiver is gone:
\* it waits for room in a channel nobody empties.
SendUnaware(w) ==
    /\ holding[w].busy
    /\ ~rxDropped
    /\ Len(queue) < Capacity
    /\ panicked' = panicked
    /\ queue' = Append(queue, [pass |-> holding[w].pass,
                               hash |-> holding[w].hash])
    /\ holding' = [holding EXCEPT ![w] = NoChain]
    /\ UNCHANGED <<todo, tx, writerPc, chain, counter, sink, sinkFailed,
                   writeResult, config, source, table, getVars, redVars>>

\* Send as it would be on an unbounded channel: it never waits for room.
SendUnbounded(w) ==
    /\ holding[w].busy
    /\ IF rxDropped
       THEN /\ panicked' = TRUE
            /\ queue' = queue
       ELSE /\ panicked' = panicked
            /\ queue' = Append(queue, [pass |-> holding[w].pass,
                                       hash |-> holding[w].hash])
    /\ holding' = [holding EXCEPT ![w] = NoChain]
    /\ UNCHANGED <<todo, tx, writerPc, chain, counter, sink, sinkFailed,
                   writeResult, config, source, table, getVars, redVars>>

\* tx.send(chain).expect(..): blocks while the channel is full, fails once
\* the receiver is gone.
Send(w) ==
    /\ holding[w].busy
    /\ IF rxDropped
       THEN /\ panicked' = TRUE
            /\ queue' = queue
       ELSE /\ Len(queue) < Capacity
            /\ panicked' = panicked
            /\ queue' = Append(queue, [pass |-> holding[w].pass,
                                       hash |-> holding[w].hash])
    /\ holding' = [holding EXCEPT ![w] = NoChain]
    /\ UNCHANGED <<todo, tx, writerPc, chain, counter, sink, sinkFailed,
                   writeResult, config, source, table, getVars, redVars>>

\* for_each returns, or unwinds after a panic, and the scope closure drops tx.
DropTx ==
    /\ tx = "alive"
    /\ \A w \in Workers : ~holding[w].busy
    /\ todo = {} \/ panicked
    /\ tx' = "dropped"
    /\ UNCHANGED <<todo, holding, panicked, queue, writerPc, chain, counter,
                   sink, sinkFailed, writeResult, config, source, table, getVars,
                   redVars>>

\* writer.write_u64::<LittleEndian>(seeds.len() as u64)?
WriteCount ==
    /\ writerPc = "count"
    /\ sink' = sink \o U64LE(Len(seeds))
    /\ writerPc' = "length"
    /\ UNCHANGED <<todo, holding, panicked, tx, queue, chain, counter,
                   sinkFailed, writeResult, config, source, table, getVars, redVars>>

\* writer.write_u64::<LittleEndian>(length as u64)?
WriteLength ==
    /\ writerPc = "length"
    /\ sink' = sink \o U64LE(length)
    /\ writerPc' = "recv"
    /\ UNCHANGED <<todo, holding, panicked, tx, queue, chain, counter,
                   sinkFailed, writeResult, config, source, table, getVars, redVars>>

\* while let Ok(chain) = rx.recv(): blocks on an empty channel while tx is
\* alive, ends the loop on an empty channel once tx is dropped.
Recv ==
    /\ writerPc = "recv"
    /\ IF queue /= <<>>
       THEN /\ chain' = Head(queue)
            /\ queue' = Tail(queue)
            /\ counter' = counter + 1
            /\ writerPc' = "pass"
       ELSE /\ tx = "dropped"
            /\ writerPc' = "done"
            /\ UNCHANGED <<chain, queue, counter>>
    /\ UNCHANGED <<todo, holding, panicked, tx, sink, sinkFailed,
                   writeResult, config, source, table, getVars, redVars>>

\* writer.write_all(&chain.pass)?
WritePass ==
    /\ writerPc = "pass"
    /\ sink' = sink \o chain.pass
    /\ writerPc' = "hash"
    /\ UNCHANGED <<todo, holding, panicked, tx, queue, chain, counter,
                   sinkFailed, writeResult, config, source, table, getVars, redVars>>

\* writer.write_all(&chain.hash)?
WriteHash ==
    /\ writerPc = "hash"
    /\ sink' = sink \o chain.hash
    /\ writerPc' = "stdout"
    /\ UNCHANGED <<todo, holding, panicked, tx, queue, chain, counter,
                   sinkFailed, writeResult, config, source, table, getVars, redVars>>

\* write!(&mut stdout, ..)?; stdout.flush()?
Progress ==
    /\ writerPc = "stdout"
    /\ writerPc' = "recv"
    /\ UNCHANGED <<todo, holding, panicked, tx, queue, chain, counter, sink,
                   sinkFailed, writeResult, config, source, table, getVars, redVars>>

\* One of the writer thread's `?` returns an io::Error: the thread's closure
\* returns Err, dropping rx and with it the chains still in the channel.
WriterFail ==
    /\ writerPc \in {"count", "length", "pass", "hash", "stdout"}
    /\ sinkFailed' = (writerPc /= "stdout")
    /\ writerPc' = "failed"
    /\ queue' = <<>>
    /\ UNCHANGED <<todo, holding, panicked, tx, chain, counter, sink,
                   writeResult, config, source, table, getVars, redVars>>

\* crossbeam::scope joins the writer thread, whose io::Result is dropped with
\* its join handle; a panic of the scope closure is resumed; otherwise the
\* scope is Ok and Table::write returns Ok(()).
WriteReturn ==
    /\ writeResult = "running"
    /\ tx = "dropped"
    /\ rxDropped
    /\ writeResult' = IF panicked THEN "panic" ELSE "Ok"
    /\ UNCHANGED <<todo, holding, panicked, tx, queue, writerPc, chain,
                   counter, sink, sinkFailed, config, source, table, getVars, redVars>>

\* -------------------------------------------------------- Table::read

\* read_u64::<LittleEndian>() of the 8 bytes b.
RECURSIVE FromLE(_)
FromLE(b) == IF b = <<>> THEN 0 ELSE Head(b) + 256 * FromLE(Tail(b))

\* insert as it would be if the map kept the entry it has: the first pass
\* stored under a hash stays.
insertFirst(chains, hash, pass) ==
    [h \in DOMAIN chains \cup {hash} |->
        IF h \in DOMAIN chains THEN chains[h] ELSE pass]

\* HashMap::insert(hash, pass): a later pass replaces an earlier one.
insert(chains, hash, pass) ==
    [h \in DOMAIN chains \cup {hash} |-> IF h = hash THEN pass ELSE chains[h]]

\* The loop `for _ in 0..chain_count` for a table of n-byte plaintexts, with
\* `left` records still to read from position `pos` of `reader`.  read_exact
\* fails when fewer bytes than it asks for are left.
RECURSIVE readLoop(_, _, _, _, _)
readLoop(n, reader, pos, left, chains) ==
    IF left = 0 THEN [ok |-> TRUE, chains |-> chains]
    ELSE IF Len(reader) < pos + n - 1 THEN [ok |-> FALSE, chains |-> <<>>]
    ELSE IF Len(reader) < pos + n + 16 - 1 THEN [ok |-> FALSE, chains |-> <<>>]
    ELSE LET pass == SubSeq(reader, pos, pos + n - 1)
             hash == SubSeq(reader, pos + n, pos + n + 16 - 1)
         IN  readLoop(n, reader, pos + n + 16, left - 1,
                      insert(chains, hash, pass))

\* HashMap::with_capacity(chain_count) for the 8 little-endian bytes b of
\* chain_count: from 2^60 on (top byte 16 or more) the table of entries of
\* 16 + P bytes would be larger than isize::MAX and with_capacity panics
\* with a capacity overflow.
capacityOverflow(b) == b[8] >= 16

\* read as it would be with the two header fields taken in the other order.
readSwapped(n, reader) ==
    IF Len(reader) < 16 THEN [state |-> "err", length |-> 0, chains |-> <<>>]
    ELSE IF capacityOverflow(SubSeq(reader, 9, 16))
         THEN [state |-> "panic", length |-> 0, chains |-> <<>>]
    ELSE LET chain_length == FromLE(SubSeq(reader, 1, 8))
             chain_count  == FromLE(SubSeq(reader, 9, 16))
             loop == readLoop(n, reader, 17, chain_count, <<>>)
         IN  IF loop.ok
             THEN [state |-> "ok", length |-> chain_length, chains |-> loop.chains]
             ELSE [state |-> "err", length |-> 0, chains |-> <<>>]

\* read as it would be if the format let it tell a stream of another record
\* size: an error unless the bytes after the header are exactly chain_count
\* records of n + 16 bytes.
readSized(n, reader) ==
    IF Len(reader) < 16 THEN [state |-> "err", length |-> 0, chains |-> <<>>]
    ELSE IF capacityOverflow(SubSeq(reader, 1, 8))
         THEN [state |-> "panic", length |-> 0, chains |-> <<>>]
    ELSE LET chain_count  == FromLE(SubSeq(reader, 1, 8))
             chain_length == FromLE(SubSeq(reader, 9, 16))
             loop == readLoop(n, reader, 17, chain_count, <<>>)
         IN  IF loop.ok /\ Len(reader) = 16 + chain_count * (n + 16)
             THEN [state |-> "ok", length |-> chain_length, chains |-> loop.chains]
             ELSE [state |-> "err", length |-> 0, chains |-> <<>>]

\* Table::<P>::read(reader) for P = n: a table, an io::Error, or the panic of
\* with_capacity.
read(n, reader) ==
    IF Len(reader) < 8 THEN [state |-> "err", length |-> 0, chains |-> <<>>]
    ELSE IF Len(reader) < 16 THEN [state |-> "err", length |-> 0, chains |-> <<>>]
    ELSE IF capacityOverflow(SubSeq(reader, 1, 8))
         THEN [state |-> "panic", length |-> 0, chains |-> <<>>]
    ELSE LET chain_count  == FromLE(SubSeq(reader, 1, 8))
             chain_length == FromLE(SubSeq(reader, 9, 16))
             loop == readLoop(n, reader, 17, chain_count, <<>>)
         IN  IF loop.ok
             THEN [state |-> "ok", length |-> chain_length, chains |-> loop.chains]
             ELSE [state |-> "err", length |-> 0, chains |-> <<>>]

\* Table::read on what Table::write left in the sink.
Read ==
    /\ writeResult /= "running"
    /\ table.state = "none"
    /\ source' = sink
    /\ table' = read(readerP, source')
    /\ UNCHANGED <<writeVars, config, getVars, redVars>>

\* Table::read on a stream that is given as it is.
ReadSource ==
    /\ table.state = "none"
    /\ table' = read(readerP, source)
    /\ UNCHANGED <<writeVars, config, source, getVars, redVars>>

\* --------------------------------------------------------- Table::get

\* walk's loop as it would be with the comparison made after `pass` has been
\* overwritten: it returns the plaintext that follows the match.
RECURSIVE walkLoopLate(_, _, _, _)
walkLoopLate(reduction, pass, hash, tgt) ==
    IF reduction >= table.length THEN [state |-> "none", pass |-> <<>>]
    ELSE LET next == reduce(readerP, checks, reduction, hash)
         IN  IF next.panic THEN [state |-> "panic", pass |-> <<>>]
             ELSE IF hash = tgt THEN [state |-> "some", pass |-> next.pass]
             ELSE walkLoopLate(reduction + 1, next.pass, md5[next.pass], tgt)

\* walk's loop `for reduction in 0..self.length` from `reduction` on.
RECURSIVE walkLoop(_, _, _, _)
walkLoop(reduction, pass, hash, tgt) ==
    IF reduction >= table.length THEN [state |-> "none", pass |-> <<>>]
    ELSE IF hash = tgt THEN [state |-> "some", pass |-> pass]
    ELSE LET next == reduce(readerP, checks, reduction, hash)
         IN  IF next.panic THEN [state |-> "panic", pass |-> <<>>]
             ELSE walkLoop(reduction + 1, next.pass, md5[next.pass], tgt)

\* Table::walk(pass, target).
walk(pass, tgt) == walkLoop(0, pass, md5[pass], tgt)

\* get's loop `for reduction in start..self.length` from `reduction` on.
RECURSIVE probeLoop(_, _)
probeLoop(reduction, hash) ==
    IF reduction >= table.length THEN [panic |-> FALSE, hash |-> hash]
    ELSE LET pass == reduce(readerP, checks, reduction, hash)
         IN  IF pass.panic THEN [panic |-> TRUE, hash |-> hash]
             ELSE probeLoop(reduction + 1, md5[pass.pass])

\* The closure as it would be with its loop starting one step late, at
\* start + 1.
probeOffByOne(start, tgt) ==
    LET end == probeLoop(start + 1, tgt)
    IN  IF end.panic THEN [state |-> "panic", pass |-> <<>>]
        ELSE IF end.hash \in DOMAIN table.chains
             THEN walk(table.chains[end.hash], tgt)
             ELSE [state |-> "none", pass |-> <<>>]

\* The closure of find_map_any for one start position.
probe(start, tgt) ==
    LET end == probeLoop(start, tgt)
    IN  IF end.panic THEN [state |-> "panic", pass |-> <<>>]
        ELSE IF end.hash \in DOMAIN table.chains
             THEN walk(table.chains[end.hash], tgt)
             ELSE [state |-> "none", pass |-> <<>>]

\* Table::get(target) is called on the table that was read.
Get(tgt) ==
    /\ table.state = "ok"
    /\ getResult.state = "idle"
    /\ target' = tgt
    /\ probed' = {}
    /\ getResult' = [state |-> "running", pass |-> <<>>]
    /\ UNCHANGED <<writeVars, config, source, table, redVars>>

\* One start position of (0..self.length + 1) is evaluated, in any order.
\* find_map_any returns the first Some it is given, and None once every
\* position has returned None; a panic of the closure is get's panic.
Probe(start) ==
    /\ getResult.state = "running"
    /\ start \in (0..table.length) \ probed
    /\ LET r == probe(start, target)
       IN  IF r.state = "none"
           THEN /\ probed' = probed \cup {start}
                /\ getResult' = IF probed' = 0..table.length THEN r
                                ELSE getResult
           ELSE /\ probed' = probed
                /\ getResult' = r
    /\ UNCHANGED <<writeVars, config, source, table, target, redVars>>

\* -------------------------------------------------- reduce on its own

\* Digests handed to reduce on its own: those of Digests, zero, one just
\* below the largest, and one whose bytes all differ.
D0 == [i \in 1..16 |-> 0]

DNear == [i \in 1..16 |-> IF i = 1 THEN 254 ELSE 255]

DMix == [i \in 1..16 |-> (i * 37 + 11) % 256]

ReduceDigests == Digests \cup {D0, DNear, DMix}

\* Table::<P>::reduce(reduction, hash) is called.
Reduce(reduction, hash) ==
    /\ redOut.state = "idle"
    /\ redArgs' = [reduction |-> reduction, hash |-> hash]
    /\ LET r == reduce(P, checks, reduction, hash)
       IN  redOut' = [state |-> "done", panic |-> r.panic, pass |-> r.pass]
    /\ UNCHANGED <<writeVars, config, source, table, getVars>>

\* ------------------------------------------------------ create (main.rs)

Min(a, b) == IF a < b THEN a ELSE b

\* fs::OpenOptions::new().write(true).create(true).open(&path)...?: the file
\* is opened, or create returns the error.
CreateOpen ==
    /\ createPc = "open"
    /\ \E opened \in BOOLEAN : createPc' = IF opened THEN "collect" ELSE "Err"
    /\ UNCHANGED <<P, checks, md5, seeds, length, readerP, words, chainCount,
                   writeVars, source, table, getVars, redVars>>

\* seeds.split_whitespace()...map(try_from(seed).unwrap()).take(chain_count)
\* .collect(), then the call of Table::write.  The iterator is lazy: take
\* pulls the first chain_count words and no other, and unwrap panics on the
\* first of them that is not P bytes long.
CreateCollect ==
    /\ createPc = "collect"
    /\ LET taken == SubSeq(words, 1, Min(chainCount, Len(words)))
       IN  IF \E i \in 1..Len(taken) : Len(taken[i]) /= P
           THEN /\ createPc' = "panic"
                /\ UNCHANGED <<seeds, writeVars>>
           ELSE /\ createPc' = "write"
                /\ seeds' = taken
                /\ todo' = 1..Len(taken)
                /\ tx' = "alive"
                /\ writerPc' = "count"
                /\ writeResult' = "running"
                /\ UNCHANGED <<holding, panicked, queue, chain, counter, sink,
                               sinkFailed>>
    /\ UNCHANGED <<P, checks, md5, length, readerP, words, chainCount, source,
                   table, getVars, redVars>>

\* rainbow::Table::<P>::write(..)?; Ok(()): a panic of write unwinds through
\* create.
CreateReturn ==
    /\ createPc = "write"
    /\ writeResult \in {"Ok", "panic"}
    /\ createPc' = writeResult
    /\ UNCHANGED <<P, checks, md5, seeds, length, readerP, words, chainCount,
                   writeVars, source, table, getVars, redVars>>

\* ------------------------------------------------------ specifications

InitWrite ==
    /\ todo = 1..Len(seeds)
    /\ holding = [w \in Workers |-> NoChain]
    /\ panicked = FALSE
    /\ tx = "alive"
    /\ queue = <<>>
    /\ writerPc = "count"
    /\ chain = [pass |-> <<>>, hash |-> <<>>]
    /\ counter = 0
    /\ sink = <<>>
    /\ sinkFailed = FALSE
    /\ writeResult = "running"

\* create is not called: Table::write is called with seeds as they are.
InitNoCreate ==
    /\ words = <<>>
    /\ chainCount = 0
    /\ createPc = "none"

InitRest ==
    /\ source = <<>>
    /\ table = NoTable
    /\ target = <<>>
    /\ probed = {}
    /\ getResult = NoResult
    /\ redArgs = [reduction |-> 0, hash |-> <<>>]
    /\ redOut = NoReduce

\* write, then read of what was written, then get.
Init ==
    /\ P \in 1..MaxP
    /\ checks \in BOOLEAN
    /\ md5 \in [Plaintexts(P) -> Digests]
    /\ seeds \in SeqUpTo(Plaintexts(P), MaxSeeds)
    /\ length \in 0..MaxLength
    /\ readerP = P
    /\ InitNoCreate
    /\ InitWrite
    /\ InitRest

Next ==
    \/ \E w \in Workers : \E i \in 1..MaxSeeds : Compute(w, i)
    \/ \E w \in Workers : Send(w)
    \/ DropTx
    \/ WriteCount
    \/ WriteLength
    \/ Recv
    \/ WritePass
    \/ WriteHash
    \/ Progress
    \/ WriterFail
    \/ WriteReturn
    \/ Read
    \/ \E tgt \in Digests : Get(tgt)
    \/ \E start \in 0..MaxLength : Probe(start)

Spec == Init /\ [][Next]_vars

\* The bytes the writer thread writes for the chains rs, in their order.
RECURSIVE recordBytes(_)
recordBytes(rs) ==
    IF rs = <<>> THEN <<>>
    ELSE Head(rs).pass \o Head(rs).hash \o recordBytes(Tail(rs))

\* The streams a completed Table::<P>::write leaves for P = n: the two header
\* fields, then one record per chain, for any chains and any chain length.
Written(n) ==
    {U64LE(Len(rs)) \o U64LE(l) \o recordBytes(rs) :
        rs \in SeqUpTo([pass : Plaintexts(n), hash : Digests], MaxSeeds),
        l \in 0..MaxLength}

\* Neither write nor create is running: read is handed a stream as it is.
InitNoWrite ==
    /\ seeds = <<>>
    /\ length = 0
    /\ InitNoCreate
    /\ InitWrite

\* A stream written by Table<P> is read, and looked up in, by a Table<P'>
\* with P' /= P.
InitMismatch ==
    /\ P \in 1..MaxMismatchP
    /\ readerP \in (1..MaxMismatchP) \ {P}
    /\ checks \in BOOLEAN
    /\ md5 \in [Plaintexts(readerP) -> Digests]
    /\ InitNoWrite
    /\ source \in Written(P)
    /\ table = NoTable
    /\ target = <<>>
    /\ probed = {}
    /\ getResult = NoResult
    /\ redArgs = [reduction |-> 0, hash |-> <<>>]
    /\ redOut = NoReduce

NextMismatch ==
    \/ ReadSource
    \/ \E tgt \in Digests : Get(tgt)
    \/ \E start \in 0..MaxLength : Probe(start)

SpecMismatch == InitMismatch /\ [][NextMismatch]_vars

\* A word that is one byte longer than a plaintext of n bytes.
LongWord(n) == [i \in 1..(n + 1) |-> TABLE[1]]

\* create::<P>(path, seeds, chain_count, chain_length) is called: Table::write
\* has not been called yet.
InitCreate ==
    /\ P \in 1..MaxP
    /\ checks \in BOOLEAN
    /\ md5 \in [Plaintexts(P) -> Digests]
    /\ words \in SeqUpTo(Plaintexts(P) \cup {LongWord(P)}, MaxSeeds)
    /\ chainCount \in 0..MaxSeeds
    /\ length \in 0..MaxLength
    /\ createPc = "open"
    /\ readerP = P
    /\ seeds = <<>>
    /\ todo = {}
    /\ holding = [w \in Workers |-> NoChain]
    /\ panicked = FALSE
    /\ tx = "none"
    /\ queue = <<>>
    /\ writerPc = "unspawned"
    /\ chain = [pass |-> <<>>, hash |-> <<>>]
    /\ counter = 0
    /\ sink = <<>>
    /\ sinkFailed = FALSE
    /\ writeResult = "uncalled"
    /\ InitRest

NextCreate ==
    \/ CreateOpen
    \/ CreateCollect
    \/ \E w \in Workers : \E i \in 1..MaxSeeds : Compute(w, i)
    \/ \E w \in Workers : Send(w)
    \/ DropTx
    \/ WriteCount
    \/ WriteLength
    \/ Recv
    \/ WritePass
    \/ WriteHash
    \/ Progress
    \/ WriterFail
    \/ WriteReturn
    \/ CreateReturn

SpecCreate == InitCreate /\ [][NextCreate]_vars

\* Table::write alone, for seed lists long enough to fill the channel while
\* every worker holds a chain and the writer thread is writing one.  What the
\* seeds are does not matter to the channel: each list repeats one seed.
InitQueue ==
    /\ P \in 1..MaxP
    /\ checks \in BOOLEAN
    /\ md5 \in [Plaintexts(P) -> Digests]
    /\ seeds \in {[i \in 1..k |-> s] : k \in 0..MaxQueueSeeds, s \in Plaintexts(P)}
    /\ length \in 0..MaxLength
    /\ readerP = P
    /\ InitNoCreate
    /\ InitWrite
    /\ InitRest

NextQueue ==
    \/ \E w \in Workers : \E i \in 1..MaxQueueSeeds : Compute(w, i)
    \/ \E w \in Workers : Send(w)
    \/ DropTx
    \/ WriteCount
    \/ WriteLength
    \/ Recv
    \/ WritePass
    \/ WriteHash
    \/ Progress
    \/ WriterFail
    \/ WriteReturn

SpecQueue == InitQueue /\ [][NextQueue]_vars

\* The steps of Table::write that a thread with a chain or a record in hand
\* takes by itself: all but the taking of a seed and an I/O error.
Scheduled ==
    \/ \E w \in Workers : Send(w)
    \/ DropTx
    \/ WriteCount
    \/ WriteLength
    \/ Recv
    \/ WritePass
    \/ WriteHash
    \/ Progress
    \/ WriteReturn

\* The guard of Compute: a seed is left and a worker is free to take it.
CanCompute ==
    /\ writeResult = "running"
    /\ tx = "alive"
    /\ todo /= {}
    /\ \E w \in Workers : ~holding[w].busy

\* Scheduling of Table::write: the rayon workers, the writer thread and the
\* thread that called write keep running.  While one of them can take a
\* step, a step is taken; and a seed is not left lying while a worker is
\* free, so it is never the case for ever that one could be taken.  Nothing
\* obliges an I/O error to happen.
Fairness == WF_vars(Scheduled) /\ []<>(~CanCompute)

\* Table::write alone under fair scheduling.
SpecLive == Init /\ [][NextQueue]_vars /\ Fairness

\* A header whose chain_count is 2^62, followed by the chain length l.
HugeHeader(l) == [i \in 1..8 |-> IF i = 8 THEN 64 ELSE 0] \o U64LE(l)

\* The streams handed to Table::<P>::read for P = n: every stream a completed
\* write leaves, every prefix of one, every one with a byte added at its end,
\* and a header that declares more chains than any stream holds.
Sources(n) ==
    UNION {{SubSeq(w, 1, k) : k \in 0..Len(w)} : w \in Written(n)}
    \cup {Append(w, 0) : w \in Written(n)}
    \cup {HugeHeader(l) : l \in 0..MaxLength}

\* Table::read alone, on the streams of Sources.
InitRead ==
    /\ P \in 1..MaxP
    /\ readerP = P
    /\ checks \in BOOLEAN
    /\ md5 = <<>>
    /\ InitNoWrite
    /\ source \in Sources(P)
    /\ table = NoTable
    /\ target = <<>>
    /\ probed = {}
    /\ getResult = NoResult
    /\ redArgs = [reduction |-> 0, hash |-> <<>>]
    /\ redOut = NoReduce

NextRead == ReadSource

SpecRead == InitRead /\ [][NextRead]_vars

\* get on any table Table::read can return: any map from digests to heads and
\* any chain length.
Tables(n) ==
    UNION {[S -> Plaintexts(n)] : S \in SUBSET Digests}

InitGet ==
    /\ P \in 1..MaxP
    /\ checks \in BOOLEAN
    /\ md5 \in [Plaintexts(P) -> Digests]
    /\ seeds = <<>>
    /\ length = 0
    /\ readerP = P
    /\ InitNoCreate
    /\ InitWrite
    /\ \E l \in 0..MaxLength : \E c \in Tables(P) :
           table = [state |-> "ok", length |-> l, chains |-> c]
    /\ source = <<>>
    /\ target = <<>>
    /\ probed = {}
    /\ getResult = NoResult
    /\ redArgs = [reduction |-> 0, hash |-> <<>>]
    /\ redOut = NoReduce

NextGet ==
    \/ \E tgt \in Digests : Get(tgt)
    \/ \E start \in 0..MaxLength : Probe(start)

SpecGet == InitGet /\ [][NextGet]_vars

\* reduce on its own, for every plaintext length up to one past the limit.
InitReduce ==
    /\ P \in 0..MaxReduceP
    /\ checks \in BOOLEAN
    /\ md5 = <<>>
    /\ seeds = <<>>
    /\ length = 0
    /\ readerP = P
    /\ InitNoCreate
    /\ InitWrite
    /\ InitRest

NextReduce ==
    \E reduction \in 0..MaxStep : \E hash \in ReduceDigests :
        Reduce(reduction, hash)

SpecReduce == InitReduce /\ [][NextReduce]_vars

\* ------------------------------------------------ what the claims speak of

\* The digest at position j of the chain that starts at `head`:
\* digest(head), then j rounds of reduce(step, hash) and digest for
\* step = 0..j-1, with the sum taken mod 2^128.
RECURSIVE Position(_, _)
Position(head, j) ==
    IF j = 0 THEN md5[head]
    ELSE md5[reduce(P, FALSE, j - 1, Position(head, j - 1)).pass]

\* The endpoint of the chain generated from `seed`.
Endpoint(seed) == Position(seed, length)

\* Table::write returned Ok and its writer thread met no io::Error.
Completed == writeResult = "Ok" /\ writerPc = "done"

\* The records that follow the 16-byte header in the sink.
Records ==
    [k \in 1..((Len(sink) - 16) \div (P + 16)) |->
        LET at == 17 + (k - 1) * (P + 16)
        IN  [pass |-> SubSeq(sink, at, at + P - 1),
             hash |-> SubSeq(sink, at + P, at + P + 15)]]

\* The chain each seed must give, in the order of seeds.
Generated == [i \in 1..Len(seeds) |->
                 [pass |-> seeds[i], hash |-> Endpoint(seeds[i])]]

IsPermutation(a, b) ==
    /\ Len(a) = Len(b)
    /\ \E f \in [1..Len(a) -> 1..Len(a)] :
           /\ \A i, j \in 1..Len(a) : f[i] = f[j] => i = j
           /\ \A i \in 1..Len(a) : a[f[i]] = b[i]

\* get has returned a value: Some or None, not a panic.
Returned == getResult.state \in {"some", "none"}

\* get has ended, by a value or by a panic.
Ended == getResult.state \in {"some", "none", "panic"}

\* `tgt` is the digest at one of the positions from..to of the chain that
\* starts at `head`.
OnChain(head, tgt, from, to) == \E j \in from..to : Position(head, j) = tgt

\* ------------------------------------------------------------------ C1

\* C1: whenever get(target) returns Some(p), md5(p) is target, for every
\* table, target and order in which the start positions are evaluated.
C1_LookupSound ==
    getResult.state = "some" => md5[getResult.pass] = target

\* get returns a plaintext found inside a chain, not a stored head.
C1_Witness ==
    /\ getResult.state = "some"
    /\ \A h \in DOMAIN table.chains : table.chains[h] /= getResult.pass

\* ------------------------------------------------------------------ C2

\* C2: for a single seed s and any chain length, 0 included, write, read and
\* get(md5(s)) return Some(s).  Stated of the values get returns; a panic of
\* get is left aside here.
C2_SingleSeedRecovery ==
    (/\ Len(seeds) = 1
     /\ Completed
     /\ table.state = "ok"
     /\ Returned
     /\ target = md5[seeds[1]])
    => getResult = [state |-> "some", pass |-> seeds[1]]

\* ------------------------------------------------------------------ C3

\* The seeds whose digest is the target of the lookup that follows a
\* completed write and read, with chain length at least 1.
C3_Sought ==
    {i \in 1..Len(seeds) :
        /\ Completed
        /\ table.state = "ok"
        /\ table.length >= 1
        /\ Returned
        /\ target = md5[seeds[i]]}

\* C3 as claimed: for a seed list that contains s and a chain length of at
\* least 1, get(md5(s)) returns Some(b) with md5(b) = md5(s), also when
\* chains merge.  Stated of the values get returns.
C3_SeedRecoveryAlways ==
    \A i \in C3_Sought :
        getResult.state = "some" /\ md5[getResult.pass] = md5[seeds[i]]

\* C3 as amended: the same, provided md5(s) is at one of the positions
\* 0..L-1 of the chain whose head the table keeps for the endpoint of s (the
\* chain of s itself, or the one a later record put in its place).
C3_SeedRecovery ==
    \A i \in C3_Sought :
        (/\ Endpoint(seeds[i]) \in DOMAIN table.chains
         /\ OnChain(table.chains[Endpoint(seeds[i])], target, 0,
                    table.length - 1))
        => getResult.state = "some" /\ md5[getResult.pass] = md5[seeds[i]]

\* Two different seeds whose chains end on the same endpoint; get is asked for
\* the digest of the one the table dropped and returns the other.
C3_Witness ==
    /\ Len(seeds) = 2
    /\ 1 \in C3_Sought
    /\ Endpoint(seeds[1]) = Endpoint(seeds[2])
    /\ getResult.state = "some"
    /\ getResult.pass /= seeds[1]
    /\ md5[getResult.pass] = md5[seeds[1]]

\* ------------------------------------------------------------------ C4

\* C4: when write completes without an I/O error, read of the bytes written
\* succeeds, the table's chain length is L, and it holds at most len(seeds)
\* chains, exactly len(seeds) iff no two generated chains share an endpoint.
C4_RoundTrip ==
    (Completed /\ table.state /= "none")
    => /\ table.state = "ok"
       /\ table.length = length
       /\ Cardinality(DOMAIN table.chains) <= Len(seeds)
       /\ (Cardinality(DOMAIN table.chains) = Len(seeds))
          <=> (\A i, j \in 1..Len(seeds) :
                  Endpoint(seeds[i]) = Endpoint(seeds[j]) => i = j)

\* A table read back with fewer chains than seeds, and a chain length that
\* differs from the number of seeds.
C4_Witness ==
    /\ Completed
    /\ table.state = "ok"
    /\ Len(seeds) = 2
    /\ length = 1
    /\ Cardinality(DOMAIN table.chains) = 1

\* ------------------------------------------------------------------ C5

\* C5: in every interleaving of the workers and the writer thread that
\* completes without an I/O error, the records after the header are a
\* permutation of one record (seed, endpoint(seed)) per element of seeds.
C5_OutputIsPermutation ==
    Completed => IsPermutation(Records, Generated)

\* Two different seeds whose records were written in the reverse order.
C5_Witness ==
    /\ Completed
    /\ Len(seeds) = 2
    /\ length >= 1
    /\ seeds[1] /= seeds[2]
    /\ Records[1].pass = seeds[2]
    /\ Records[2].pass = seeds[1]

\* ------------------------------------------------------------------ C6

\* C6: if a write to the sink made by the writer thread fails, Table::write
\* does not return Ok(()).
C6_SinkFailureSurfaced ==
    sinkFailed => writeResult /= "Ok"

\* ------------------------------------------------------------------ C7

\* C7: for an empty seed list write leaves the 16-byte header with
\* chain_count = 0, read gives a table without chains, and get ends with None
\* for every target.
C7_EmptyInput ==
    (seeds = <<>> /\ Completed)
    => /\ sink = U64LE(0) \o U64LE(length)
       /\ table.state /= "none"
              => table.state = "ok" /\ DOMAIN table.chains = {}
       /\ Ended => getResult.state = "none"

\* ------------------------------------------------------------------ C8

\* The target is at none of the positions 0..L of a chain whose head the
\* table holds.
C8_Miss ==
    \A h \in DOMAIN table.chains :
        ~OnChain(table.chains[h], target, 0, table.length)

\* C8: if the target is on no stored chain, get ends with None: a value, not
\* an error or a panic.
C8_MissIsNone ==
    (Ended /\ C8_Miss) => getResult.state = "none"

\* ------------------------------------------------------------------ C9

\* The plaintext the claims give for reduce: entry (low six bits of byte i)
\* of TABLE for each of the low n bytes of hash + reduction, the sum taken
\* mod 2^128 and so mod 2^(8n).
ReducedOf(n, reduction, hash) ==
    [i \in 1..n |-> TABLE[(AddU128(hash, reduction).bytes[i] % 64) + 1]]

\* C9: for 1 <= P <= 16, every step and every digest, reduce completes and
\* its result is computed from (digest + step) mod 2^(8P).
C9_ReduceArithmetic ==
    (redOut.state = "done" /\ P \in 1..16)
    => /\ ~redOut.panic
       /\ redOut.pass = ReducedOf(P, redArgs.reduction, redArgs.hash)

\* ----------------------------------------------------------------- C10

\* C10: what reduce returns has exactly P bytes, each the entry of TABLE at
\* the low six bits of the same byte of the masked sum, so each is one of
\* the 64 symbols.
C10_ReduceAlphabet ==
    (redOut.state = "done" /\ ~redOut.panic)
    => /\ Len(redOut.pass) = P
       /\ \A i \in 1..P : \E k \in 1..64 : redOut.pass[i] = TABLE[k]
       /\ redOut.pass = ReducedOf(P, redArgs.reduction, redArgs.hash)

\* ----------------------------------------------------------------- C11

\* The chain_count field of the stream that was read.
SourceCount == FromLE(SubSeq(source, 1, 8))

Supplied == SubSeq(words, 1, Min(chainCount, Len(words)))

\* No digest or reduce step of Table::write has been taken.
NoChainComputed ==
    /\ todo = 1..Len(seeds)
    /\ \A w \in Workers : ~holding[w].busy
    /\ queue = <<>>
    /\ sink = <<>>

\* C12: once the file is open and the seeds have been looked at, a supplied
\* seed whose length is not P has made create return an error value, with no
\* chain computation begun.
C12_SeedLengthChecked ==
    (/\ createPc \notin {"open", "collect"}
     /\ \E i \in 1..Len(Supplied) : Len(Supplied[i]) /= P)
    => createPc = "Err" /\ NoChainComputed

\* ----------------------------------------------------------------- C13

\* The chains that have been computed and are not yet written: those the
\* workers hold, those in the channel, and the one the writer thread has
\* received and is writing.
Unwritten ==
    Cardinality({w \in Workers : holding[w].busy})
    + Len(queue)
    + (IF writerPc \in {"pass", "hash"} THEN 1 ELSE 0)

\* C13 as claimed: the channel never holds more than its capacity, and the
\* chains computed but not yet written are at most capacity plus the number
\* of workers.
C13_BoundedByCapacityAndWorkers ==
    /\ Len(queue) <= Capacity
    /\ Unwritten <= Capacity + NumWorkers

\* C13 as amended: the channel never holds more than its capacity, a
\* producer with a finished chain waits while it is full, and the chains
\* computed but not yet written are at most capacity plus the number of
\* workers plus one: the chain the writer thread has taken out of the channel
\* and is still writing.
C13_Backpressure ==
    /\ Len(queue) <= Capacity
    /\ Unwritten <= Capacity + NumWorkers + 1
    /\ \A w \in Workers :
           (holding[w].busy /\ Len(queue) = Capacity /\ ~rxDropped)
           => /\ ~ENABLED Send(w)
              /\ \A i \in 1..MaxQueueSeeds : ~ENABLED Compute(w, i)

\* Every worker holds a chain, the channel is full and the writer thread is
\* in the middle of a record.
C13_Witness ==
    /\ \A w \in Workers : holding[w].busy
    /\ Len(queue) = Capacity
    /\ writerPc = "pass"
    /\ Unwritten = Capacity + NumWorkers + 1

\* ----------------------------------------------------------------- C14

\* The endpoints under which the table stores the head of a chain that ends
\* on them, with the target at one of the positions 0..L of that chain.
C14_Covering ==
    {h \in DOMAIN table.chains :
        /\ Position(table.chains[h], table.length) = h
        /\ OnChain(table.chains[h], target, 0, table.length)}

\* C14: if the target is the digest at a position 0..L of a chain stored in
\* the table, position L included, get returns Some(p) with md5(p) = target.
\* Stated of the values get returns.
C14_AllPositions ==
    (Returned /\ C14_Covering /= {})
    => getResult.state = "some" /\ md5[getResult.pass] = target

\* ----------------------------------------------------------------- C15

\* The header Table::write is to write: chain_count = len(seeds), then
\* chain_length = L, 8 bytes little-endian each.
Header == U64LE(Len(seeds)) \o U64LE(length)

\* The sink begins with the header, or with as much of it as is written, and
\* holds nothing else before the header is complete.
C15_HeaderFirst ==
    sink = SubSeq(Header, 1, Min(Len(sink), 16)) \o SubSeq(sink, 17, Len(sink))

\* What follows the header is whole records, each the P bytes of a seed and
\* then the 16 bytes of its endpoint, and after them at most the P bytes of
\* the record the writer thread is writing.
C15_RecordsWhole ==
    Len(sink) > 16 =>
        /\ \A k \in 1..Len(Records) :
               \E i \in 1..Len(seeds) : Records[k] = Generated[i]
        /\ \/ Len(sink) = 16 + Len(Records) * (P + 16)
           \/ /\ writerPc \in {"hash", "failed"}
              /\ Len(sink) = 16 + Len(Records) * (P + 16) + P
              /\ SubSeq(sink, Len(sink) - P + 1, Len(sink)) = chain.pass

\* C15: the header comes first, records are written whole and one after the
\* other, and when write returns Ok the header is followed by as many
\* records as its chain_count says.
C15_HeaderThenRecords ==
    /\ C15_HeaderFirst
    /\ C15_RecordsWhole
    /\ writeResult = "Ok" =>
           Len(sink) >= 16 /\ Len(Records) = FromLE(SubSeq(sink, 1, 8))

\* ----------------------------------------------------------------- C16

\* Every chain has been enqueued, the writer thread has taken every one of
\* them and has left its loop on the closed, empty channel, and write has
\* returned Ok.
C16_Drained ==
    /\ Completed
    /\ tx = "dropped"
    /\ todo = {}
    /\ queue = <<>>
    /\ counter = Len(seeds)

C17_WriterGone ==
    /\ writerPc = "failed"
    /\ writeResult = "running"
    /\ todo /= {} \/ \E w \in Workers : holding[w].busy

\* C17: under fair scheduling, once the writer thread has stopped while a
\* producer still has a chain to enqueue, write ends by a panic, neither
\* returning Ok nor hanging; and a worker that holds a chain when the writer
\* thread has stopped, blocked on a full channel or not, lets go of it.
C17_WriterGoneIsFatal ==
    /\ C17_WriterGone ~> (writeResult = "panic")
    /\ \A w \in Workers :
           (writerPc = "failed" /\ holding[w].busy) ~> ~holding[w].busy

\* write has ended by a panic that came from a send to the stopped writer
\* thread: the build does not check overflow, so no chain computation
\* panicked, and the writer thread had taken a chain before it stopped.
C17_Witness ==
    /\ writerPc = "failed"
    /\ writeResult = "panic"
    /\ ~checks
    /\ counter >= 1
    /\ Len(seeds) = 2

\* ----------------------------------------------------------------- C18

\* C18: read of a well-formed stream succeeds whether or not endpoints
\* collide; the table holds one chain for each endpoint that occurs among
\* the records and no other, and the head stored for an endpoint is that of
\* the last record in the stream with that endpoint.
C18_LastRecordWins ==
    (Completed /\ table.state /= "none")
    => /\ table.state = "ok"
       /\ DOMAIN table.chains = {Records[k].hash : k \in 1..Len(Records)}
       /\ \A k \in 1..Len(Records) :
              (\A j \in (k + 1)..Len(Records) :
                  Records[j].hash /= Records[k].hash)
              => table.chains[Records[k].hash] = Records[k].pass

\* Two records with the same endpoint and different heads have been read:
\* the table holds one chain, with the head of the second record.
C18_Witness ==
    /\ Completed
    /\ table.state = "ok"
    /\ Len(Records) = 2
    /\ Records[1].hash = Records[2].hash
    /\ Records[1].pass /= Records[2].pass
    /\ Cardinality(DOMAIN table.chains) = 1
    /\ table.chains[Records[2].hash] = Records[2].pass

\* ----------------------------------------------------------------- C19

\* The stream ends before the header and the chain_count records of P + 16
\* bytes that the header declares.
C19_Truncated ==
    \/ Len(source) < 16
    \/ capacityOverflow(SubSeq(source, 1, 8))
    \/ Len(source) < 16 + SourceCount * (readerP + 16)

\* C19: read of a stream that ends before its header and declared records
\* returns an I/O error and no table, filled or half filled; read of a stream
\* that holds them returns a table, whatever bytes follow the last record.
C19_TruncatedIsError ==
    table.state /= "none"
    => IF C19_Truncated
       THEN table = [state |-> "err", length |-> 0, chains |-> <<>>]
       ELSE table.state = "ok"
====
